---- MODULE Spec2Model ----
(***************************************************************************)
(* Store simulation of src/Pregunta1y2.py (TiendaComestibles,              *)
(* generar_clientes, simulacion_tienda) running on the simpy engine the    *)
(* program imports (line 3).  The engine is modelled by what the calls in  *)
(* the source do:                                                          *)
(*   - env.timeout(d) schedules an event at now + d with NORMAL priority;  *)
(*   - env.process(g) schedules the start of g at now with URGENT          *)
(*     priority; a generator that returns schedules its own process event  *)
(*     at now with NORMAL priority;                                        *)
(*   - the event heap is ordered by (time, priority, insertion id);        *)
(*   - caja.request() appends to the put queue and grants the head of the  *)
(*     queue if a register is free; the grant is an event at now, NORMAL;  *)
(*   - leaving the with block removes the customer from the users and      *)
(*     schedules a release event at now, NORMAL, whose processing grants   *)
(*     the head of the put queue;                                          *)
(*   - env.run(until=T) raises ValueError if T <= now, else schedules a    *)
(*     stop event at T with URGENT priority and steps until it is popped.  *)
(* Simulated time is modelled with integers; random draws are choices from *)
(* bounded sets.                                                           *)
(***************************************************************************)
EXTENDS Integers, Sequences, FiniteSets, TLC

\* ---------------------------------------------------------------- bounds
MaxClientes == 3
MaxLlegada == 2
MaxServicio == 5
MaxT == 6

\* event priorities of the engine
URGENT == 0
NORMAL == 1

Clientes == 1..MaxClientes
\* interarrival draws, np.random.exponential(60 / tasa_llegada)
DrawsLlegada == {0, 1, MaxLlegada}
\* service draws, np.random.exponential(5)
DrawsServicio == {0, 2, MaxServicio}

VARIABLES
    par,                 \* arguments of simulacion_tienda
    estado,              \* "creado", "corriendo", "parado", "error"
    now,                 \* env.now
    queue,               \* the engine's event heap, a set of event records
    eid,                 \* next insertion id
    ultimo,              \* the event popped last
    users,               \* caja.users
    put_queue,           \* caja.put_queue
    stock,
    clientes_atendidos,
    clientes_sin_stock,
    veces_sin_stock,
    reabastecimientos,
    tiempos_espera,
    tiempos_total,
    cliente,             \* counter of generar_clientes
    cli,                 \* per customer: locals of atender_cliente
    pidio,               \* customers in the order they issued caja.request()
    concedio,            \* customers in the order they were granted
    liberado             \* customers in the order they released

vars == <<par, estado, now, queue, eid, ultimo, users, put_queue, stock,
          clientes_atendidos, clientes_sin_stock, veces_sin_stock,
          reabastecimientos, tiempos_espera, tiempos_total, cliente, cli,
          pidio, concedio, liberado>>

\* ------------------------------------------------------------- helpers
Ev(t, prio, id, tipo, c) ==
    [t |-> t, prio |-> prio, eid |-> id, tipo |-> tipo, c |-> c]

NoEv == Ev(0, URGENT, -1, "ninguno", 0)

\* the heap ordered by insertion id alone, a plain FIFO of events
AntesInsercion(e, f) == e.eid < f.eid

\* the heap with ties of time and priority broken by the latest insertion
AntesLifo(e, f) ==
    \/ e.t < f.t
    \/ e.t = f.t /\ e.prio < f.prio
    \/ e.t = f.t /\ e.prio = f.prio /\ e.eid > f.eid

\* heap order of the engine: (time, priority, insertion id)
Antes(e, f) ==
    \/ e.t < f.t
    \/ e.t = f.t /\ e.prio < f.prio
    \/ e.t = f.t /\ e.prio = f.prio /\ e.eid < f.eid

Siguiente == CHOOSE e \in queue : \A f \in queue \ {e} : Antes(e, f)

Quitar(s, x) == SelectSeq(s, LAMBDA y : y # x)

Max(a, b) == IF a >= b THEN a ELSE b

NuevoCliente ==
    [fase |-> "no", llegada |-> -1, inicio |-> -1, fin |-> -1,
     tiempo_servicio |-> -1, stock_llegada |-> -1, stock_inicio |-> -1]

\* the stock check with the comparison off by one
HayStockCero(s) == s >= 0

\* if self.stock > 0 (line 236)
HayStock(s) == s > 0

\* the restock processes in flight: spawned and not yet completed
EnReabastecimiento == {e \in queue : e.tipo \in {"init_reab", "reab"}}

\* the restock spawned only when none is in flight
BajoUmbralUnico(s) ==
    s < par.umbral_reabastecimiento /\ EnReabastecimiento = {}

\* if self.stock < self.umbral_reabastecimiento (line 250)
BajoUmbral(s) == s < par.umbral_reabastecimiento

\* the capacity check with the comparison off by one
HayCajaDeMas(us) == Len(us) <= par.num_cajas

\* Resource._do_put: a register is free
HayCaja(us) == Len(us) < par.num_cajas

\* the put queue served from its tail
CabezaUltimo(pq) == pq[Len(pq)]

\* BaseResource._trigger_put: the head of the put queue is the one tried
Cabeza(pq) == Head(pq)

\* the grant of the head of the put queue, if a register is free:
\* the new users, put queue and the grant events, scheduled at time t
\* with insertion id id
TriggerPut(us, pq, t, id) ==
    IF pq # <<>> /\ HayCaja(us)
    THEN [users |-> Append(us, Cabeza(pq)),
          put_queue |-> Quitar(pq, Cabeza(pq)),
          evs |-> {Ev(t, NORMAL, id, "concedida", Cabeza(pq))},
          quien |-> <<Cabeza(pq)>>]
    ELSE [users |-> us, put_queue |-> pq, evs |-> {}, quien |-> <<>>]

\* ---------------------------------------------------------------- Init
\* the state after lines 268-270: the environment, the store and the
\* arrival generator exist, env.run has not been called
Init ==
    /\ par \in [tiempo_simulacion : {0, MaxT},
                tasa_llegada : {1},
                num_cajas : {1, 2},
                stock_inicial : {0, 1, 3},
                umbral_reabastecimiento : {0, 2},
                lote_reabastecimiento : {1, 2},
                tiempo_reabastecimiento : {1, 2}]
    /\ estado = "creado"
    /\ now = 0
    /\ queue = {Ev(0, URGENT, 0, "init_gen", 0)}
    /\ eid = 1
    /\ ultimo = NoEv
    /\ users = <<>>
    /\ put_queue = <<>>
    /\ stock = par.stock_inicial
    /\ clientes_atendidos = 0
    /\ clientes_sin_stock = 0
    /\ veces_sin_stock = 0
    /\ reabastecimientos = 0
    /\ tiempos_espera = <<>>
    /\ tiempos_total = <<>>
    /\ cliente = 0
    /\ cli = [c \in Clientes |-> NuevoCliente]
    /\ pidio = <<>>
    /\ concedio = <<>>
    /\ liberado = <<>>

Contadores == <<stock, clientes_atendidos, clientes_sin_stock, veces_sin_stock,
                reabastecimientos, tiempos_espera, tiempos_total>>

Caja == <<users, put_queue, pidio, concedio, liberado>>

\* ------------------------------------------------------------- actions
\* env.run() called without until: no stop event is scheduled
RunSinHasta ==
    /\ estado = "creado"
    /\ estado' = IF par.tiempo_simulacion <= now THEN "error" ELSE "corriendo"
    /\ UNCHANGED <<par, now, queue, eid, ultimo, users, put_queue, stock,
                   clientes_atendidos, clientes_sin_stock, veces_sin_stock,
                   reabastecimientos, tiempos_espera, tiempos_total, cliente,
                   cli, pidio, concedio, liberado>>

\* env.run(until=tiempo_simulacion), line 271: the stop event
HastaPrio == URGENT

\* env.run(until) that accepts an until equal to the current time
RunHastaIgual ==
    /\ estado = "creado"
    /\ IF par.tiempo_simulacion < now
       THEN /\ estado' = "error"
            /\ UNCHANGED <<queue, eid>>
       ELSE /\ estado' = "corriendo"
            /\ queue' = queue \cup
                 {Ev(par.tiempo_simulacion, HastaPrio, eid, "until", 0)}
            /\ eid' = eid + 1
    /\ UNCHANGED <<par, now, ultimo, cliente, cli, stock, clientes_atendidos,
                   clientes_sin_stock, veces_sin_stock, reabastecimientos,
                   tiempos_espera, tiempos_total, users, put_queue, pidio,
                   concedio, liberado>>

Run ==
    /\ estado = "creado"
    /\ IF par.tiempo_simulacion <= now
       THEN /\ estado' = "error"
            /\ UNCHANGED <<queue, eid>>
       ELSE /\ estado' = "corriendo"
            /\ queue' = queue \cup
                 {Ev(par.tiempo_simulacion, HastaPrio, eid, "until", 0)}
            /\ eid' = eid + 1
    /\ UNCHANGED <<par, now, ultimo, cliente, cli, Contadores, Caja>>

\* one step of the engine pops e, the first event of the heap: the clock
\* moves to its time
Pop(e) ==
    /\ estado = "corriendo"
    /\ queue # {}
    /\ now' = e.t
    /\ ultimo' = e
    /\ UNCHANGED par

\* the due times of the next arrival after the n-th customer: an
\* interarrival draw, and past MaxClientes arrivals a draw that falls beyond
\* the horizon of the run
ProximaLlegada(t, n) ==
    IF n < MaxClientes
    THEN {t + d : d \in DrawsLlegada}
    ELSE {Max(t, par.tiempo_simulacion) + 1}

\* generar_clientes starts: cliente = 0, first timeout (lines 261-263)
IniciarGenerador ==
    LET e == Siguiente IN
        /\ Pop(e)
        /\ e.tipo = "init_gen"
        /\ cliente' = 0
        /\ \E t \in ProximaLlegada(e.t, 0) :
             queue' = (queue \ {e}) \cup {Ev(t, NORMAL, eid, "llegada", 0)}
        /\ eid' = eid + 1
        /\ UNCHANGED <<estado, cli, Contadores, Caja>>

\* generar_clientes resumes after its timeout: cliente += 1, the service
\* process of the customer is spawned, next timeout (lines 263-265)
LlegadaCliente ==
    LET e == Siguiente IN
        /\ Pop(e)
        /\ e.tipo = "llegada"
        /\ cliente' = cliente + 1
        /\ cli' = [cli EXCEPT ![cliente + 1].fase = "creado"]
        /\ \E t \in ProximaLlegada(e.t, cliente + 1) :
             queue' = (queue \ {e}) \cup
                 {Ev(e.t, URGENT, eid, "init_cliente", cliente + 1),
                  Ev(t, NORMAL, eid + 1, "llegada", 0)}
        /\ eid' = eid + 2
        /\ UNCHANGED <<estado, Contadores, Caja>>

\* atender_cliente starts: llegada = env.now, caja.request() (lines 226-230)
IniciarCliente ==
    LET e == Siguiente IN
        /\ Pop(e)
        /\ e.tipo = "init_cliente"
        /\ LET g == TriggerPut(users, Append(put_queue, e.c), e.t, eid)
           IN /\ users' = g.users
              /\ put_queue' = g.put_queue
              /\ concedio' = concedio \o g.quien
              /\ queue' = (queue \ {e}) \cup g.evs
              /\ eid' = eid + Len(g.quien)
              /\ cli' = [c \in Clientes |->
                          IF c = e.c
                          THEN [cli[c] EXCEPT
                                  !.fase = IF <<c>> = g.quien
                                           THEN "concedida" ELSE "esperando",
                                  !.llegada = e.t,
                                  !.stock_llegada = stock]
                          ELSE IF <<c>> = g.quien
                               THEN [cli[c] EXCEPT !.fase = "concedida"]
                               ELSE cli[c]]
        /\ pidio' = Append(pidio, e.c)
        /\ UNCHANGED <<estado, cliente, Contadores, liberado>>

\* the end of atender_cliente with the register given back one time unit
\* after the customer leaves
EpilogoTardio(c, s, t, id) ==
    LET r == IF BajoUmbral(s) THEN {Ev(t, URGENT, id, "init_reab", c)} ELSE {}
        k == id + Cardinality(r)
    IN [evs |-> r \cup {Ev(t + 1, NORMAL, k, "release", c),
                        Ev(t, NORMAL, k + 1, "fin_proceso", c)},
        eid |-> k + 2]

\* the end of atender_cliente with self.reabastecer() called without
\* env.process: the restock generator is created and never run
EpilogoSinProceso(c, s, t, id) ==
    [evs |-> {Ev(t, NORMAL, id, "release", c),
              Ev(t, NORMAL, id + 1, "fin_proceso", c)},
     eid |-> id + 2]

\* the end of atender_cliente with stock s, from insertion id id at time t:
\* the restock process is spawned if the stock is below the threshold
\* (lines 250-251; its events carry the customer that spawned it), the with
\* block releases the register (line 229) and the process ends
Epilogo(c, s, t, id) ==
    LET r == IF BajoUmbral(s) THEN {Ev(t, URGENT, id, "init_reab", c)} ELSE {}
        k == id + Cardinality(r)
    IN [evs |-> r \cup {Ev(t, NORMAL, k, "release", c),
                        Ev(t, NORMAL, k + 1, "fin_proceso", c)},
        eid |-> k + 2]

\* an exit of the with block that leaves the customer among the users
LiberarNada(us, c) == us

\* the with block's exit: the register of c is given back
Liberar(us, c) == Quitar(us, c)

\* a release that wakes no waiter
AlLiberarSinAviso(us, pq, t, id) ==
    [users |-> us, put_queue |-> pq, evs |-> {}, quien |-> <<>>]

\* the callback of the release event: the put queue is triggered
AlLiberar(us, pq, t, id) == TriggerPut(us, pq, t, id)

\* the wait measured from the start of the run instead of the arrival
EsperaDesdeCero(c, t) == t

\* espera = self.env.now - llegada (line 231)
Espera(c, t) == t - cli[c].llegada

\* the unserved customer not counted
SinContar(n) == n

\* self.clientes_sin_stock += 1 (line 245)
ContarSinStock(n) == n + 1

\* self.clientes_atendidos += 1 (line 240)
ContarAtendido(n) == n + 1

\* the wait sample recorded on the served path only
RegistrarEsperaServido(s, x) == IF HayStock(stock) THEN Append(s, x) ELSE s

\* self.tiempos_espera.append(espera) (line 232)
RegistrarEspera(s, x) == Append(s, x)

\* the unit of stock not taken
DespacharNada(s) == s

\* self.stock -= 1 (line 237)
Despachar(s) == s - 1

\* the stock set to the lot instead of increased by it
ReponerFijo(s) == par.lote_reabastecimiento

\* self.stock += self.lote_reabastecimiento (line 256)
Reponer(s) == s + par.lote_reabastecimiento

\* the request of a customer is granted: espera is recorded and the stock
\* is checked (lines 231-239 and 244-251)
ConcederCaja ==
    LET e == Siguiente IN
        /\ Pop(e)
        /\ e.tipo = "concedida"
        /\ tiempos_espera' = RegistrarEspera(tiempos_espera, Espera(e.c, e.t))
        /\ IF HayStock(stock)
           THEN /\ stock' = Despachar(stock)
                /\ \E d \in DrawsServicio :
                     /\ queue' = (queue \ {e}) \cup
                          {Ev(e.t + d, NORMAL, eid, "servicio", e.c)}
                     /\ cli' = [cli EXCEPT ![e.c].fase = "servicio",
                                           ![e.c].inicio = e.t,
                                           ![e.c].stock_inicio = stock,
                                           ![e.c].tiempo_servicio = d]
                /\ eid' = eid + 1
                /\ UNCHANGED <<clientes_sin_stock, veces_sin_stock, users,
                               liberado>>
           ELSE /\ clientes_sin_stock' = ContarSinStock(clientes_sin_stock)
                /\ veces_sin_stock' = veces_sin_stock + 1
                /\ LET x == Epilogo(e.c, stock, e.t, eid)
                   IN /\ queue' = (queue \ {e}) \cup x.evs
                      /\ eid' = x.eid
                /\ users' = Liberar(users, e.c)
                /\ liberado' = Append(liberado, e.c)
                /\ cli' = [cli EXCEPT ![e.c].fase = "sin_stock",
                                      ![e.c].inicio = e.t,
                                      ![e.c].stock_inicio = stock,
                                      ![e.c].fin = e.t]
                /\ UNCHANGED stock
        /\ UNCHANGED <<estado, cliente, clientes_atendidos, reabastecimientos,
                       tiempos_total, put_queue, pidio, concedio>>

\* the service timeout of a customer is over (lines 240-251)
FinServicio ==
    LET e == Siguiente IN
        /\ Pop(e)
        /\ e.tipo = "servicio"
        /\ clientes_atendidos' = ContarAtendido(clientes_atendidos)
        /\ tiempos_total' = Append(tiempos_total, e.t - cli[e.c].llegada)
        /\ LET x == Epilogo(e.c, stock, e.t, eid)
           IN /\ queue' = (queue \ {e}) \cup x.evs
              /\ eid' = x.eid
        /\ users' = Liberar(users, e.c)
        /\ liberado' = Append(liberado, e.c)
        /\ cli' = [cli EXCEPT ![e.c].fase = "servido", ![e.c].fin = e.t]
        /\ UNCHANGED <<estado, cliente, stock, clientes_sin_stock,
                       veces_sin_stock, reabastecimientos, tiempos_espera,
                       put_queue, pidio, concedio>>

\* the release event is processed: its callback grants the head of the
\* put queue (line 229, the with block's exit)
ProcesarRelease ==
    LET e == Siguiente IN
        /\ Pop(e)
        /\ e.tipo = "release"
        /\ LET g == AlLiberar(users, put_queue, e.t, eid)
           IN /\ users' = g.users
              /\ put_queue' = g.put_queue
              /\ concedio' = concedio \o g.quien
              /\ queue' = (queue \ {e}) \cup g.evs
              /\ eid' = eid + Len(g.quien)
              /\ cli' = [c \in Clientes |->
                          IF <<c>> = g.quien
                          THEN [cli[c] EXCEPT !.fase = "concedida"]
                          ELSE cli[c]]
        /\ UNCHANGED <<estado, cliente, Contadores, pidio, liberado>>

\* reabastecer starts: timeout(tiempo_reabastecimiento) (lines 254-255)
IniciarReabastecer ==
    LET e == Siguiente IN
        /\ Pop(e)
        /\ e.tipo = "init_reab"
        /\ queue' = (queue \ {e}) \cup
             {Ev(e.t + par.tiempo_reabastecimiento, NORMAL, eid, "reab", e.c)}
        /\ eid' = eid + 1
        /\ UNCHANGED <<estado, cliente, cli, Contadores, Caja>>

\* reabastecer resumes after its timeout (lines 256-258) and ends
FinReabastecer ==
    LET e == Siguiente IN
        /\ Pop(e)
        /\ e.tipo = "reab"
        /\ stock' = Reponer(stock)
        /\ reabastecimientos' = reabastecimientos + 1
        /\ queue' = (queue \ {e}) \cup {Ev(e.t, NORMAL, eid, "fin_proceso", 0)}
        /\ eid' = eid + 1
        /\ UNCHANGED <<estado, cliente, cli, clientes_atendidos,
                       clientes_sin_stock, veces_sin_stock, tiempos_espera,
                       tiempos_total, Caja>>

\* the event of a process that has ended: nothing waits for it
FinProceso ==
    LET e == Siguiente IN
        /\ Pop(e)
        /\ e.tipo = "fin_proceso"
        /\ queue' = queue \ {e}
        /\ UNCHANGED <<estado, eid, cliente, cli, Contadores, Caja>>

\* the stop event popped without ending the run
DetenerSinParar ==
    LET e == Siguiente IN
        /\ Pop(e)
        /\ e.tipo = "until"
        /\ estado' = estado
        /\ queue' = queue \ {e}
        /\ UNCHANGED <<eid, cliente, cli, Contadores, Caja>>

\* the stop event of env.run(until=...) is popped: run returns (line 271)
Detener ==
    LET e == Siguiente IN
        /\ Pop(e)
        /\ e.tipo = "until"
        /\ estado' = "parado"
        /\ queue' = queue \ {e}
        /\ UNCHANGED <<eid, cliente, cli, Contadores, Caja>>

Next ==
    \/ Run
    \/ IniciarGenerador
    \/ LlegadaCliente
    \/ IniciarCliente
    \/ ConcederCaja
    \/ FinServicio
    \/ ProcesarRelease
    \/ IniciarReabastecer
    \/ FinReabastecer
    \/ FinProceso
    \/ Detener

Spec == Init /\ [][Next]_vars

\* the runs of one restock configuration and one horizon
InitLive ==
    /\ Init
    /\ par.tiempo_simulacion = MaxT
    /\ par.lote_reabastecimiento = 1
    /\ par.tiempo_reabastecimiento = 2

\* the engine keeps stepping while run has not returned
LiveSpec == InitLive /\ [][Next]_vars /\ WF_vars(Next)

\* --------------------------------------------- ejecutar_simulacion_tienda
\* the validation with the lot size tested with < instead of <=
InvalidoLoteCero(p) ==
    \/ p.tiempo_simulacion <= 0
    \/ p.tasa_llegada <= 0
    \/ p.num_cajas <= 0
    \/ p.stock_inicial < 0
    \/ p.umbral_reabastecimiento < 0
    \/ p.lote_reabastecimiento < 0
    \/ p.tiempo_reabastecimiento <= 0

\* the checks of lines 341-354: one of them raises ValueError
Invalido(p) ==
    \/ p.tiempo_simulacion <= 0
    \/ p.tasa_llegada <= 0
    \/ p.num_cajas <= 0
    \/ p.stock_inicial < 0
    \/ p.umbral_reabastecimiento < 0
    \/ p.lote_reabastecimiento <= 0
    \/ p.tiempo_reabastecimiento <= 0

\* the state after the inputs are read (lines 332-338): no environment, no
\* store and no process exist
InitEntrada ==
    /\ par \in [tiempo_simulacion : {0, MaxT},
                tasa_llegada : {0, 1},
                num_cajas : {0, 1, 2},
                stock_inicial : {-1, 0, 1},
                umbral_reabastecimiento : {-1, 2},
                lote_reabastecimiento : {0, 1},
                tiempo_reabastecimiento : {0, 1}]
    /\ estado = "entrada"
    /\ now = 0
    /\ queue = {}
    /\ eid = 0
    /\ ultimo = NoEv
    /\ users = <<>>
    /\ put_queue = <<>>
    /\ stock = 0
    /\ clientes_atendidos = 0
    /\ clientes_sin_stock = 0
    /\ veces_sin_stock = 0
    /\ reabastecimientos = 0
    /\ tiempos_espera = <<>>
    /\ tiempos_total = <<>>
    /\ cliente = 0
    /\ cli = [c \in Clientes |-> NuevoCliente]
    /\ pidio = <<>>
    /\ concedio = <<>>
    /\ liberado = <<>>

\* the validation of lines 341-354 and, if it passes, the call of
\* simulacion_tienda up to line 270: the environment, the store and the
\* arrival generator are created
Validar ==
    /\ estado = "entrada"
    /\ IF Invalido(par)
       THEN /\ estado' = "rechazado"
            /\ UNCHANGED <<queue, eid, stock>>
       ELSE /\ estado' = "creado"
            /\ queue' = {Ev(0, URGENT, 0, "init_gen", 0)}
            /\ eid' = 1
            /\ stock' = par.stock_inicial
    /\ UNCHANGED <<par, now, ultimo, users, put_queue, clientes_atendidos,
                   clientes_sin_stock, veces_sin_stock, reabastecimientos,
                   tiempos_espera, tiempos_total, cliente, cli, pidio,
                   concedio, liberado>>

NextEntrada ==
    \/ Validar
    \/ Next

SpecEntrada == InitEntrada /\ [][NextEntrada]_vars

\* ---------------------------------------------------------- properties
T == par.tiempo_simulacion

EnServicio == {c \in Clientes : cli[c].fase = "servicio"}

Elems(s) == {s[i] : i \in 1..Len(s)}

EsPrefijo(s, r) ==
    /\ Len(s) <= Len(r)
    /\ \A i \in 1..Len(s) : s[i] = r[i]

\* C1: the customers holding a register at once are never more than
\* num_cajas, and no customer holds two
C1_CapacidadCajas ==
    /\ Len(users) <= par.num_cajas
    /\ Cardinality(Elems(users)) = Len(users)

\* every register is held while another customer waits
C1_Witness ==
    /\ par.num_cajas = 2
    /\ Len(users) = 2
    /\ put_queue # <<>>

\* C2: registers are granted in the order of the requests: the customers
\* granted so far are the first ones that asked, the waiting ones are the
\* rest in request order, and a customer that asked earlier does not begin
\* service later
C2_FIFO ==
    /\ EsPrefijo(concedio, pidio)
    /\ pidio = concedio \o put_queue
    /\ \A i, j \in 1..Len(pidio) :
         (i < j /\ cli[pidio[j]].inicio >= 0)
            => /\ cli[pidio[i]].inicio >= 0
               /\ cli[pidio[i]].inicio <= cli[pidio[j]].inicio

\* a release with two waiters has just granted the first of them
C2_Witness ==
    /\ ultimo.tipo = "release"
    /\ put_queue # <<>>
    /\ \E e \in queue :
         /\ e.tipo = "concedida"
         /\ e.eid = eid - 1
         /\ e.c < Head(put_queue)

\* C3: the stock is never negative
C3_StockNoNegativo == stock >= 0

\* two customers on different registers took the last two units at the
\* same simulated instant
C3_Witness ==
    /\ stock = 0
    /\ \E a, b \in EnServicio :
         /\ a # b
         /\ cli[a].inicio = cli[b].inicio
         /\ cli[a].stock_inicio + cli[b].stock_inicio = 3

\* C4: the clock never passes until, no event due later than until is
\* resumed, and nothing a customer does is dated later than until
C4_NoPasaDeHasta ==
    estado \in {"corriendo", "parado"} =>
        /\ now <= T
        /\ ultimo.t <= T
        /\ \A c \in Clientes :
             /\ cli[c].llegada <= T
             /\ cli[c].inicio <= T
             /\ cli[c].fin <= T

\* the run has stopped at until with a later event left pending
C4_Witness ==
    /\ estado = "parado"
    /\ now = T
    /\ clientes_atendidos > 0
    /\ \E e \in queue : e.tipo = "servicio" /\ e.t > T

\* C5 as stated: when run has returned, the clock is at until and every
\* event left pending is due strictly later than until, those due exactly
\* at until having been resumed
C5_Original ==
    estado = "parado" =>
        /\ now = T
        /\ \A e \in queue : e.t > T

\* C5 amended: run resumes every event due strictly before until; when it
\* returns the clock is exactly at until and the events left, those due
\* exactly at until included, stay pending
C5_HastaExcluido ==
    /\ estado = "corriendo" =>
         \E e \in queue : e.tipo = "until" /\ e.t = T /\ now <= e.t
    /\ estado = "parado" =>
         /\ now = T
         /\ \A e \in queue : e.t >= T
         /\ \A e \in queue : e.tipo # "until"

\* run has returned and left a service completion due exactly at until
C5_Witness ==
    /\ estado = "parado"
    /\ \E e \in queue : e.tipo = "servicio" /\ e.t = T
    /\ \E e \in queue : e.tipo = "llegada" /\ e.t > T

\* C6 as stated: time never moves backward and, at one instant, events are
\* resumed in insertion order alone: nothing still pending at the instant
\* of the event resumed last was scheduled before it
C6_Original ==
    ultimo # NoEv =>
        \A e \in queue :
            \/ e.t > ultimo.t
            \/ e.t = ultimo.t /\ e.eid > ultimo.eid

\* C6 amended: time never moves backward; at one instant events of equal
\* priority are resumed in insertion order, and the only events resumed
\* ahead of an earlier scheduled one are the urgent ones (process starts),
\* which go before the pending timeouts, grants and releases
C6_OrdenEventos ==
    ultimo # NoEv =>
        /\ now = ultimo.t
        /\ \A e \in queue :
            \/ e.t > ultimo.t
            \/ e.t = ultimo.t /\ e.eid > ultimo.eid
            \/ e.t = ultimo.t /\ ultimo.prio = URGENT /\ e.prio = NORMAL

\* the start of a service process has been resumed ahead of a service
\* completion that was scheduled before it for the same instant
C6_Witness ==
    /\ ultimo.tipo = "init_cliente"
    /\ \E e \in queue :
         e.tipo = "servicio" /\ e.t = ultimo.t /\ e.eid < ultimo.eid

\* the wait of customer c when one register serves the customers in turn
EsperaUnaCaja(c) ==
    IF c = 1 THEN 0 ELSE Max(0, cli[c - 1].fin - cli[c].llegada)

\* C7: with one register and no customer that found the stock empty, the
\* customers are served in arrival order and the wait recorded for each is
\* max(0, end of the previous customer's service - own arrival); arrivals
\* at 0 and 1 with service time 5 give customer 2 a start at 5 and a wait
\* of 4, and customer 1 a wait of 0
C7_EsperaUnaCaja ==
    (par.num_cajas = 1 /\ clientes_sin_stock = 0) =>
        /\ \A i \in 1..Len(concedio) : concedio[i] = i
        /\ \A c \in Clientes :
             cli[c].inicio >= 0 =>
                /\ Len(tiempos_espera) >= c
                /\ tiempos_espera[c] = EsperaUnaCaja(c)
                /\ cli[c].inicio = cli[c].llegada + EsperaUnaCaja(c)
        /\ ( /\ MaxClientes >= 2
             /\ cli[1].llegada = 0 /\ cli[1].tiempo_servicio = 5
             /\ cli[2].llegada = 1 /\ cli[2].tiempo_servicio = 5 )
           => /\ cli[2].inicio = 5
              /\ tiempos_espera[1] = 0
              /\ tiempos_espera[2] = 4

\* the scenario: arrivals at 0 and 1, service time 5 for both, the second
\* customer has begun service
C7_Witness ==
    /\ par.num_cajas = 1
    /\ clientes_sin_stock = 0
    /\ cli[1].llegada = 0 /\ cli[1].tiempo_servicio = 5
    /\ cli[2].llegada = 1 /\ cli[2].tiempo_servicio = 5
    /\ tiempos_espera = <<0, 4>>

\* the customers of which a step of atender_cliente is pending
Pendientes(tipos) == {e.c : e \in {f \in queue : f.tipo \in tipos}}

\* C8 as stated: a customer that arrived when the stock was 0 is counted
\* unserved at the instant of its arrival
C8_Original ==
    \A c \in Clientes :
        (cli[c].stock_llegada = 0 /\ now > cli[c].llegada)
            => /\ cli[c].fase = "sin_stock"
               /\ cli[c].fin = cli[c].llegada

\* C8 amended: a customer that finds the stock at 0 when its request is
\* granted is counted unserved at that instant: clientes_sin_stock grows
\* by one, clientes_atendidos and stock do not change, no service timeout
\* is scheduled and the register is given back in the same step
C8_SinStockAlConceder ==
    [][ (ultimo' # ultimo /\ ultimo'.tipo = "concedida" /\ stock = 0)
          => /\ clientes_sin_stock' = clientes_sin_stock + 1
             /\ clientes_atendidos' = clientes_atendidos
             /\ stock' = stock
             /\ now' = ultimo'.t
             /\ cli'[ultimo'.c].fase = "sin_stock"
             /\ cli'[ultimo'.c].fin = now'
             /\ ultimo'.c \notin Elems(users')
             /\ liberado' = Append(liberado, ultimo'.c)
             /\ ultimo'.c \notin Pendientes({"servicio"})' ]_vars

\* a customer that waited for the register found the stock at 0 when it
\* was granted, later than its arrival
C8_Witness ==
    \E c \in Clientes :
        /\ cli[c].fase = "sin_stock"
        /\ cli[c].stock_inicio = 0
        /\ cli[c].fin > cli[c].llegada
        /\ ultimo.tipo = "concedida" /\ ultimo.c = c

\* the number of times c appears in s
Veces(s, c) == Cardinality({i \in 1..Len(s) : s[i] = c})

\* run has returned and left pending, due at until or later, the event
\* that resumes customer c
Truncado(c) ==
    /\ estado = "parado"
    /\ \E e \in queue :
         e.c = c /\ e.tipo \in {"concedida", "servicio"} /\ e.t >= T

\* C9: a customer that was granted a register releases it exactly once, on
\* the served and on the unserved path: the customers holding a register are
\* the ones between their grant and the end of their service, each with its
\* resumption pending, so no register is held when nobody is in service;
\* and every holder eventually releases, unless run returns first with the
\* holder's resumption still pending
C9_LiberaUnaVez ==
    /\ [](\A c \in Clientes :
            /\ Veces(liberado, c) <= 1
            /\ Veces(liberado, c) = 1 <=> cli[c].fase \in {"servido", "sin_stock"}
            /\ Veces(users, c) = 1 <=> cli[c].fase \in {"concedida", "servicio"}
            /\ Veces(users, c) = 1 => c \in Pendientes({"concedida", "servicio"})
            /\ Veces(users, c) = 1 => Veces(liberado, c) = 0)
    /\ \A c \in Clientes :
         (c \in Elems(users)) ~> (c \notin Elems(users) \/ Truncado(c))

\* both exit paths have released: a served and an unserved customer have
\* given their registers back and no register is held
C9_Witness ==
    /\ users = <<>>
    /\ \E a, b \in Elems(liberado) :
         cli[a].fase = "servido" /\ cli[b].fase = "sin_stock"

\* C10: a customer that waits for a register is eventually granted one,
\* unless run returns first while every register is held by a customer
\* whose resumption is still pending
C10_SinInanicion ==
    \A c \in Clientes :
        (c \in Elems(put_queue))
            ~> \/ c \in Elems(concedio)
               \/ /\ Len(users) = par.num_cajas
                  /\ \A u \in Elems(users) : Truncado(u)

\* the last of two waiting customers has been granted a register
C10_Witness ==
    /\ Len(pidio) = 3
    /\ Len(concedio) = 3
    /\ cli[3].inicio > cli[3].llegada
    /\ cli[2].inicio > cli[2].llegada
    /\ cli[2].llegada <= cli[1].inicio

\* the customers in the order of s that come before c
AntesDe(s, c) ==
    {s[i] : i \in {j \in 1..Len(s) : \E k \in 1..Len(s) : j < k /\ s[k] = c}}

\* C11: a register given back while customers wait goes to the earliest
\* waiter within the same simulated instant: a register is seen free with a
\* customer waiting only while the release is still pending at the current
\* instant; whoever asks then joins the queue behind the waiter, which is
\* still at its head; and a customer that had to wait begins at the
\* instant at which an earlier customer released
C11_ConcesionAlLiberar ==
    /\ (put_queue # <<>> /\ HayCaja(users)) =>
          /\ estado = "corriendo"
          /\ \E e \in queue : e.tipo = "release" /\ e.t = now
          /\ \A c \in Elems(put_queue) :
               Head(put_queue) = c \/ Head(put_queue) \in AntesDe(pidio, c)
    /\ \A c \in Elems(concedio) :
          /\ AntesDe(pidio, c) \subseteq Elems(concedio)
          /\ (cli[c].inicio > cli[c].llegada) =>
                \E d \in AntesDe(pidio, c) :
                    d \in Elems(liberado) /\ cli[d].fin = cli[c].inicio

\* a customer asked for a register at the instant of a release that was
\* still pending: the freed register went to the customer already waiting
\* and the newcomer queued behind
C11_Witness ==
    /\ ultimo.tipo = "init_cliente"
    /\ put_queue = <<ultimo.c>>
    /\ \E e \in queue : e.tipo = "release" /\ e.t = now
    /\ \E e \in queue :
         /\ e.tipo = "concedida" /\ e.eid = eid - 1
         /\ cli[e.c].llegada < now

\* C12: a restock process completes tiempo_reabastecimiento after the
\* instant at which it was spawned (the end of the customer that spawned
\* it), and its completion adds exactly lote_reabastecimiento to the stock
\* and one to reabastecimientos and changes no other counter
C12_ReabastecerExacto ==
    /\ [](\A e \in queue :
            /\ e.tipo = "init_reab" => (e.t = now /\ e.t = cli[e.c].fin)
            /\ e.tipo = "reab" =>
                 e.t = cli[e.c].fin + par.tiempo_reabastecimiento)
    /\ [][ (ultimo' # ultimo /\ ultimo'.tipo = "reab")
             => /\ stock' = stock + par.lote_reabastecimiento
                /\ reabastecimientos' = reabastecimientos + 1
                /\ now' = cli[ultimo'.c].fin + par.tiempo_reabastecimiento
                /\ UNCHANGED <<clientes_atendidos, clientes_sin_stock,
                               veces_sin_stock, tiempos_espera, tiempos_total,
                               users, put_queue, cliente>> ]_vars

\* one arrival with the stock below the threshold: the single restock it
\* triggered has completed and raised the stock by the lot
C12_Witness ==
    /\ ultimo.tipo = "reab"
    /\ cliente = 1
    /\ par.stock_inicial = 1 /\ par.umbral_reabastecimiento = 2
    /\ par.lote_reabastecimiento = 2
    /\ clientes_atendidos = 1
    /\ reabastecimientos = 1
    /\ stock = 2
    /\ now = cli[1].fin + par.tiempo_reabastecimiento

\* C13: restocks are not deduplicated: every customer that ends, served or
\* unserved, with the stock below the threshold adds one restock process to
\* the ones in flight, whatever their number, and a customer that ends with
\* the stock at or above the threshold adds none
C13_SinDeduplicar ==
    [][ ( /\ ultimo' # ultimo
          /\ \/ ultimo'.tipo = "servicio"
             \/ ultimo'.tipo = "concedida" /\ stock = 0 )
          => /\ stock' = stock
             /\ Cardinality(EnReabastecimiento') =
                  Cardinality(EnReabastecimiento)
                    + (IF stock < par.umbral_reabastecimiento THEN 1 ELSE 0) ]_vars

\* two restock processes are in flight at once and a third one has already
\* added its lot
C13_Witness ==
    /\ Cardinality({e \in queue : e.tipo = "reab"}) >= 2
    /\ reabastecimientos >= 1

\* C14 as stated, on the runs that end with no customer inside its service
\* timeout: the wait samples and the total-time samples are as many as the
\* served customers, the unserved ones having recorded no sample
C14_Original ==
    (estado = "parado" /\ EnServicio = {}) =>
        /\ Len(tiempos_espera) = Len(tiempos_total)
        /\ Len(tiempos_total) = clientes_atendidos

\* C14 amended: total-time samples are recorded on the served path only,
\* one per served customer; a wait sample is recorded for every customer
\* whose request is granted, before the stock is checked, so the unserved
\* customers and the ones still inside their service timeout have one too
C14_MuestrasPorConcesion ==
    /\ Len(tiempos_total) = clientes_atendidos
    /\ Len(tiempos_espera) =
          clientes_atendidos + clientes_sin_stock + Cardinality(EnServicio)
    /\ \A i \in 1..Len(tiempos_espera) :
          /\ i <= Len(concedio)
          /\ tiempos_espera[i] = cli[concedio[i]].inicio - cli[concedio[i]].llegada

\* run has returned with nobody in service and an unserved customer has
\* left a wait sample and no total-time sample
C14_Witness ==
    /\ estado = "parado"
    /\ EnServicio = {}
    /\ clientes_sin_stock > 0
    /\ clientes_atendidos > 0
    /\ Len(tiempos_espera) = clientes_atendidos + clientes_sin_stock
    /\ Len(tiempos_total) = clientes_atendidos

\* C16: with tiempo_simulacion <= 0, tasa_llegada <= 0, num_cajas <= 0,
\* stock_inicial < 0, umbral_reabastecimiento < 0, lote_reabastecimiento <= 0
\* or tiempo_reabastecimiento <= 0 the run is rejected: no environment,
\* register pool or process is created and no event is scheduled or resumed
C16_RechazoPrevio ==
    ( \/ par.tiempo_simulacion <= 0
      \/ par.tasa_llegada <= 0
      \/ par.num_cajas <= 0
      \/ par.stock_inicial < 0
      \/ par.umbral_reabastecimiento < 0
      \/ par.lote_reabastecimiento <= 0
      \/ par.tiempo_reabastecimiento <= 0 )
    => /\ estado \in {"entrada", "rechazado"}
       /\ queue = {}
       /\ eid = 0
       /\ ultimo = NoEv
       /\ now = 0
       /\ users = <<>> /\ put_queue = <<>>
       /\ cliente = 0
       /\ stock = 0
       /\ clientes_atendidos = 0 /\ clientes_sin_stock = 0
       /\ reabastecimientos = 0

\* a run whose only invalid input is a lot size of 0 has been rejected
C16_Witness ==
    /\ estado = "rechazado"
    /\ par.lote_reabastecimiento = 0
    /\ par.tiempo_simulacion > 0 /\ par.tasa_llegada > 0
    /\ par.num_cajas > 0 /\ par.stock_inicial >= 0
    /\ par.umbral_reabastecimiento >= 0 /\ par.tiempo_reabastecimiento > 0

C18_StockConservado ==
    estado # "entrada" =>
        /\ stock = par.stock_inicial
                     + par.lote_reabastecimiento * reabastecimientos
                     - clientes_atendidos
                     - Cardinality(EnServicio)
        /\ Cardinality(EnServicio) <= par.num_cajas

\* run has returned with both registers inside a service timeout and a
\* restock completed: two units are taken and not yet counted as served
C18_Witness ==
    /\ estado = "parado"
    /\ par.num_cajas = 2
    /\ Cardinality(EnServicio) = 2
    /\ reabastecimientos > 0
    /\ par.stock_inicial + par.lote_reabastecimiento * reabastecimientos - stock
         = clientes_atendidos + 2

\* a stock-out has its remedy pending: a customer inside its service
\* timeout or a restock process in flight
ConRemedio == EnServicio # {} \/ EnReabastecimiento # {}

\* C19 as stated, on the states of a run in progress: with
\* umbral_reabastecimiento >= 1 every state with the stock at 0 has a
\* customer in service or a restock in flight
C19_Original ==
    (estado = "corriendo" /\ par.umbral_reabastecimiento >= 1 /\ stock = 0)
        => ConRemedio

\* C19 amended: with umbral_reabastecimiento >= 1 every state with the stock
\* at 0 reached after the first grant of a register has a customer in
\* service or a restock in flight (a run started with stock_inicial = 0 has
\* neither until its first customer is turned away), and from such a state
\* the stock becomes positive again unless run returns first with the
\* remedy still pending; with umbral_reabastecimiento = 0 no restock is ever spawned, a stock of 0
\* stays at 0 and every customer granted afterwards is unserved
C19_RemedioPendiente ==
    /\ []( ( /\ par.umbral_reabastecimiento >= 1
             /\ stock = 0
             /\ tiempos_espera # <<>> ) => ConRemedio )
    /\ ( /\ par.umbral_reabastecimiento >= 1
         /\ stock = 0
         /\ tiempos_espera # <<>> )
          ~> (stock > 0 \/ (estado = "parado" /\ ConRemedio))
    /\ []( par.umbral_reabastecimiento = 0 =>
             /\ reabastecimientos = 0
             /\ EnReabastecimiento = {} )
    /\ [][ (par.umbral_reabastecimiento = 0 /\ stock = 0)
             => /\ stock' = 0
                /\ clientes_atendidos' + Cardinality(EnServicio')
                     = clientes_atendidos + Cardinality(EnServicio) ]_vars

\* the stock is at 0 with nobody in service and only a restock in flight
\* to end the stock-out
C19_Witness ==
    /\ par.umbral_reabastecimiento >= 1
    /\ par.stock_inicial > 0
    /\ stock = 0
    /\ EnServicio = {}
    /\ clientes_sin_stock > 0
    /\ EnReabastecimiento # {}

\* the customers spawned by generar_clientes whose service process has not
\* started yet
SinEmpezar == {c \in Clientes : cli[c].fase = "creado"}

\* the served customers in the order in which they ended
Servidos == SelectSeq(liberado, LAMBDA c : cli[c].fase = "servido")

\* C20 as stated: the customers spawned are the ones waiting for a
\* register, the ones holding one, the served and the unserved ones
C20_Original ==
    cliente = Len(put_queue) + Len(users)
                + clientes_atendidos + clientes_sin_stock

\* C20 amended: the customers spawned are the ones whose service process
\* has not started yet, the ones waiting for a register, the ones holding
\* one, the served and the unserved ones, each in one class only;
\* tiempos_total has one sample per served customer; clientes_sin_stock
\* equals veces_sin_stock; and the wait w and total time t recorded for a
\* customer satisfy 0 <= w <= t
C20_ClientesContados ==
    /\ cliente = Cardinality(SinEmpezar) + Len(put_queue) + Len(users)
                   + clientes_atendidos + clientes_sin_stock
    /\ Elems(put_queue) = {c \in Clientes : cli[c].fase = "esperando"}
    /\ Cardinality(Elems(put_queue)) = Len(put_queue)
    /\ clientes_atendidos = Cardinality({c \in Clientes : cli[c].fase = "servido"})
    /\ clientes_sin_stock = Cardinality({c \in Clientes : cli[c].fase = "sin_stock"})
    /\ \A c \in Clientes : cli[c].fase = "no" <=> c > cliente
    /\ Len(tiempos_total) = clientes_atendidos
    /\ clientes_sin_stock = veces_sin_stock
    /\ Len(Servidos) = Len(tiempos_total)
    /\ \A i \in 1..Len(Servidos) :
          LET c == Servidos[i]
              k == CHOOSE j \in 1..Len(concedio) : concedio[j] = c
          IN /\ tiempos_total[i] = cli[c].fin - cli[c].llegada
             /\ tiempos_espera[k] = cli[c].inicio - cli[c].llegada
             /\ 0 <= tiempos_espera[k]
             /\ tiempos_espera[k] <= tiempos_total[i]
    /\ \A i \in 1..Len(tiempos_espera) : tiempos_espera[i] >= 0

\* a customer has been spawned and its service process has not started,
\* while one customer is served, one is unserved and the counters account
\* for them
C20_Witness ==
    /\ cliente = 3
    /\ Cardinality(SinEmpezar) = 1
    /\ clientes_atendidos = 1
    /\ clientes_sin_stock = 1
    /\ tiempos_total # <<>>
    /\ tiempos_espera[1] < tiempos_total[1]

\* ------------------------------------------------ the arrivals of one run
\* the horizons of the runs in which every interarrival draw is taken from
\* DrawsLlegada: with draws of at least one time unit the arrival after
\* the last customer of Clientes is due at the horizon or later
Horizontes == 1..(MaxClientes + 1)

\* the state after lines 268-270 of a run with a positive horizon
InitLlegadas ==
    /\ par \in [tiempo_simulacion : Horizontes,
                tasa_llegada : {1},
                num_cajas : {1, 2},
                stock_inicial : {0, 1},
                umbral_reabastecimiento : {2},
                lote_reabastecimiento : {1},
                tiempo_reabastecimiento : {1}]
    /\ estado = "creado"
    /\ now = 0
    /\ queue = {Ev(0, URGENT, 0, "init_gen", 0)}
    /\ eid = 1
    /\ ultimo = NoEv
    /\ users = <<>>
    /\ put_queue = <<>>
    /\ stock = par.stock_inicial
    /\ clientes_atendidos = 0
    /\ clientes_sin_stock = 0
    /\ veces_sin_stock = 0
    /\ reabastecimientos = 0
    /\ tiempos_espera = <<>>
    /\ tiempos_total = <<>>
    /\ cliente = 0
    /\ cli = [c \in Clientes |-> NuevoCliente]
    /\ pidio = <<>>
    /\ concedio = <<>>
    /\ liberado = <<>>

\* generar_clientes starts (lines 261-263): cliente = 0 and the first
\* timeout, its delay any draw of DrawsLlegada
IniciarGenerarClientes ==
    LET e == Siguiente IN
        /\ Pop(e)
        /\ e.tipo = "init_gen"
        /\ cliente' = 0
        /\ \E d \in DrawsLlegada :
             queue' = (queue \ {e}) \cup
                 {Ev(e.t + d, NORMAL, eid, "llegada", 0)}
        /\ eid' = eid + 1
        /\ UNCHANGED <<estado, cli, Contadores, Caja>>

\* one turn of the while True loop of generar_clientes (lines 262-265):
\* cliente += 1, the service process is spawned and the next timeout is
\* yielded, its delay any draw of DrawsLlegada; the customers are the ones
\* of Clientes, so the loop turns at most MaxClientes times
GenerarClientes ==
    LET e == Siguiente IN
        /\ Pop(e)
        /\ e.tipo = "llegada"
        /\ cliente < MaxClientes
        /\ cliente' = cliente + 1
        /\ cli' = [cli EXCEPT ![cliente + 1].fase = "creado"]
        /\ \E d \in DrawsLlegada :
             queue' = (queue \ {e}) \cup
                 {Ev(e.t, URGENT, eid, "init_cliente", cliente + 1),
                  Ev(e.t + d, NORMAL, eid + 1, "llegada", 0)}
        /\ eid' = eid + 2
        /\ UNCHANGED <<estado, Contadores, Caja>>

NextLlegadas ==
    \/ Run
    \/ IniciarGenerarClientes
    \/ GenerarClientes
    \/ IniciarCliente
    \/ ConcederCaja
    \/ FinServicio
    \/ ProcesarRelease
    \/ IniciarReabastecer
    \/ FinReabastecer
    \/ FinProceso
    \/ Detener

\* the engine keeps stepping while an event can be processed
LiveLlegadas ==
    InitLlegadas /\ [][NextLlegadas]_vars /\ WF_vars(NextLlegadas)

\* the instant at which customer c arrived: the start of its service
\* process, which is due at the instant of the arrival
Instante(c) ==
    IF cli[c].llegada >= 0
    THEN cli[c].llegada
    ELSE (CHOOSE e \in queue : e.tipo = "init_cliente" /\ e.c = c).t

\* the instant of the arrival before customer c; the generator starts at 0
InstanteAnterior(c) == IF c = 1 THEN 0 ELSE Instante(c - 1)

\* the timeouts of generar_clientes still pending
LlegadaPendiente == {e \in queue : e.tipo = "llegada"}

\* every interarrival draw made so far was at least one time unit
SinCeros ==
    /\ \A c \in 1..cliente : Instante(c) >= InstanteAnterior(c) + 1
    /\ \A e \in LlegadaPendiente : e.t >= InstanteAnterior(cliente + 1) + 1

\* the arrival generator is alive: it has not started yet or it waits on
\* a timeout
GeneradorVivo ==
    Cardinality({e \in queue : e.tipo \in {"init_gen", "llegada"}}) = 1

\* C21: in a run with a positive horizon T the arrival generator never
\* ends, so the event queue is never empty, and
\* (a) while every interarrival draw is at least one time unit, the n-th
\*     arrival happens at instant n or later, so fewer than T arrivals are
\*     processed, and the run returns: run(until=T) terminates;
\* (b) a run that is still going with no step left to take, the next
\*     arrival being due before T with every customer of Clientes already
\*     spawned, has seen an interarrival draw of 0
C21_TerminaSinCeros ==
    /\ [](estado \in {"creado", "corriendo", "parado"} /\ GeneradorVivo)
    /\ [](SinCeros => cliente <= now /\ cliente < T)
    /\ []((estado = "corriendo" /\ ~ENABLED NextLlegadas) => ~SinCeros)
    /\ ([]SinCeros => <>(estado = "parado" /\ now = T))

\* interarrival draws of 0: every customer of Clientes has arrived at
\* instant 0, the next arrival is due at instant 0 too, and the stop event
\* of the run is still pending at T > 0
C21_Witness ==
    /\ estado = "corriendo"
    /\ now = 0
    /\ cliente = MaxClientes
    /\ \A c \in Clientes : Instante(c) = 0
    /\ \E e \in queue : e.tipo = "llegada" /\ e.t = 0 /\ e = Siguiente
    /\ \E e \in queue : e.tipo = "until" /\ e.t = T /\ T > 0

====
